---- MODULE Spec2Model ----
(***************************************************************************)
(* Inventory ledger and stock-transaction processing of the supply-chain   *)
(* backend (backend/src/services/inventory_service.py and                  *)
(* backend/src/services/transaction_service.py), as driven through the     *)
(* REST handlers of backend/src/api/inventory.py and api/transactions.py.  *)
(*                                                                         *)
(* The state is the committed content of the `inventory` and               *)
(* `transactions` tables.  Every request runs in a session of its own      *)
(* (data/database.py get_session): what a handler has flushed but not      *)
(* committed when it raises is discarded when the session closes, what it  *)
(* has committed stays.  The service methods are operators from a          *)
(* committed database to the committed database they leave behind,         *)
(* together with their outcome; the handlers are the actions.              *)
(***************************************************************************)
EXTENDS Integers, Sequences, FiniteSets, TLC

\* ---------------------------------------------------------------- bounds
NumProducts == 1
NumLocations == 2
MaxQty == 2
MaxTxns == 2
MaxBatch == 2
NumSuppliers == 2
MaxCatalog == 2
NumRequests == 2
MaxRows == 3
MaxRaceTxns == 3
MaxStockTxns == 4
MaxReceipts == 51
MaxLeadTime == 51

VARIABLES
    inventory,      \* committed rows of table `inventory`, in rowid order
    transactions,   \* committed rows of table `transactions`, in rowid order
    result,         \* the handler that ran last and how it ended
    products,       \* committed rows of table `products`, by id
    locations,      \* committed rows of table `locations`, by id
    suppliers,      \* committed rows of table `suppliers`, by id
    inflight        \* requests that have read the ledger and not yet written

catalog == <<products, locations, suppliers>>
vars == <<inventory, transactions, result, products, locations, suppliers, inflight>>

\* ------------------------------------------------------------ the catalog
\* Ids of the products, locations and suppliers that exist, and the ids a
\* request may name: at least one of them resolves to nothing unless the
\* table is full.
ProductIds == DOMAIN products
LocationIds == DOMAIN locations
SupplierIds == DOMAIN suppliers
AnyProductId == 1..(NumProducts + 1)
AnyLocationId == 1..(NumLocations + 1)
AnySupplierId == 1..NumSuppliers

\* config.py Settings.allow_negative_inventory (default)
allow_negative_inventory == FALSE

TransactionType == {"IN", "OUT", "TRANSFER", "ADJUSTMENT"}

\* An Optional[int] field of a request body: <<>> when unset or null.
Optional(S) == {<<>>} \cup {<<v>> : v \in S}

abs(x) == IF x < 0 THEN -x ELSE x
max(a, b) == IF a >= b THEN a ELSE b
min(a, b) == IF a <= b THEN a ELSE b

\* ------------------------------------------------------------- the ledger
\* Row of table `inventory` (models.py Inventory).
Inventory(p, l, q, r) ==
    [product_id |-> p, location_id |-> l, quantity_on_hand |-> q, reserved_quantity |-> r]

\* Row of table `transactions` (models.py Transaction).
Transaction(d) ==
    [product_id |-> d.product_id, location_id |-> d.location_id,
     transaction_type |-> d.transaction_type, quantity |-> d.quantity]

\* Row of table `products` (models.py Product): the business key, the
\* supplier link (<<>> when null), the reorder point and the soft-delete flag.
Product(sku, supplier_id, reorder_point) ==
    [sku |-> sku, supplier_id |-> supplier_id, reorder_point |-> reorder_point,
     is_active |-> TRUE]

\* Row of table `locations` (models.py Location); code is <<>> when null.
Location(name, code) == [name |-> name, code |-> code, is_active |-> TRUE]

\* Row of table `suppliers` (models.py Supplier);
\* lead_time_days has the default of SupplierCreate.
Supplier(name) == [name |-> name, is_active |-> TRUE, lead_time_days |-> 7]

\* Request body of a transaction (models.py TransactionCreate).
TransactionCreate(p, l, t, q) ==
    [product_id |-> p, location_id |-> l, transaction_type |-> t, quantity |-> q]

\* Request body of PUT /inventory/{p}/{l} (models.py InventoryUpdate).
InventoryUpdate(q, r) == [quantity_on_hand |-> q, reserved_quantity |-> r]

\* select(Inventory).where(product_id == p, location_id == l).first():
\* the position of the first matching row, 0 when there is none.
get_inventory_by_product_location(inv, p, l) ==
    LET hits == {i \in 1..Len(inv) : inv[i].product_id = p /\ inv[i].location_id = l}
    IN  IF hits = {} THEN 0 ELSE CHOOSE i \in hits : \A j \in hits : i <= j

\* select(Inventory).where(product_id == p): positions of the product's rows.
get_inventory(inv, p) == {i \in 1..Len(inv) : inv[i].product_id = p}

\* on_hand - reserved, the floor at zero forgotten.
get_available_quantity_unclamped(inv, p, l) ==
    LET i == get_inventory_by_product_location(inv, p, l)
    IN  IF i = 0 THEN 0
        ELSE inv[i].quantity_on_hand - inv[i].reserved_quantity

get_available_quantity(inv, p, l) ==
    LET i == get_inventory_by_product_location(inv, p, l)
    IN  IF i = 0 THEN 0
        ELSE max(0, inv[i].quantity_on_hand - inv[i].reserved_quantity)

RECURSIVE SumAvailable(_, _)
SumAvailable(inv, rows) ==
    IF rows = {} THEN 0
    ELSE LET i == CHOOSE k \in rows : TRUE
         IN  max(0, inv[i].quantity_on_hand - inv[i].reserved_quantity)
             + SumAvailable(inv, rows \ {i})

get_total_available_quantity(inv, p) == SumAvailable(inv, get_inventory(inv, p))

\* update_inventory with the negative-quantity check dropped.
update_inventory_unchecked(inv, p, l, data) ==
    LET i    == get_inventory_by_product_location(inv, p, l)
        row0 == IF i = 0 THEN Inventory(p, l, 0, 0) ELSE inv[i]
        qoh  == data.quantity_on_hand
        rq   == data.reserved_quantity
    IN  IF i = 0 /\ (p \notin ProductIds \/ l \notin LocationIds)
        THEN [inventory |-> inv, status |-> "IntegrityError", row |-> 0]
        ELSE LET row1 == [row0 EXCEPT
                            !.quantity_on_hand = IF qoh # <<>> THEN qoh[1] ELSE @,
                            !.reserved_quantity = IF rq # <<>> THEN rq[1] ELSE @]
             IN  IF i = 0
                 THEN [inventory |-> Append(inv, row1), status |-> "ok",
                       row |-> Len(inv) + 1]
                 ELSE [inventory |-> [inv EXCEPT ![i] = row1], status |-> "ok",
                       row |-> i]

\* InventoryService.update_inventory: [inventory, status].  A row for a
\* product or location that does not exist violates the foreign keys at
\* commit (database.py enables them) and nothing is written.
update_inventory(inv, p, l, data) ==
    LET i    == get_inventory_by_product_location(inv, p, l)
        row0 == IF i = 0 THEN Inventory(p, l, 0, 0) ELSE inv[i]
        qoh  == data.quantity_on_hand
        rq   == data.reserved_quantity
    IN  IF qoh # <<>> /\ qoh[1] < 0 /\ ~allow_negative_inventory
        THEN [inventory |-> inv, status |-> "NegativeInventory", row |-> 0]
        ELSE IF i = 0 /\ (p \notin ProductIds \/ l \notin LocationIds)
        THEN [inventory |-> inv, status |-> "IntegrityError", row |-> 0]
        ELSE LET row1 == [row0 EXCEPT
                            !.quantity_on_hand = IF qoh # <<>> THEN qoh[1] ELSE @,
                            !.reserved_quantity = IF rq # <<>> THEN rq[1] ELSE @]
             IN  IF i = 0
                 THEN [inventory |-> Append(inv, row1), status |-> "ok",
                       row |-> Len(inv) + 1]
                 ELSE [inventory |-> [inv EXCEPT ![i] = row1], status |-> "ok",
                       row |-> i]

\* reserve_inventory refusing a request for exactly what is available.
reserve_inventory_strict(inv, p, l, quantity) ==
    LET i == get_inventory_by_product_location(inv, p, l)
    IN  IF i = 0 THEN [inventory |-> inv, status |-> "false"]
        ELSE LET available == inv[i].quantity_on_hand - inv[i].reserved_quantity
             IN  IF available <= quantity
                 THEN [inventory |-> inv, status |-> "false"]
                 ELSE [inventory |-> [inv EXCEPT ![i].reserved_quantity = @ + quantity],
                       status |-> "ok"]

\* reserve_inventory without the comparison against what is available.
reserve_inventory_unchecked(inv, p, l, quantity) ==
    LET i == get_inventory_by_product_location(inv, p, l)
    IN  IF i = 0 THEN [inventory |-> inv, status |-> "false"]
        ELSE [inventory |-> [inv EXCEPT ![i].reserved_quantity = @ + quantity],
              status |-> "ok"]

\* InventoryService.reserve_inventory: [inventory, status]; status "false"
\* is the method returning False.
reserve_inventory(inv, p, l, quantity) ==
    LET i == get_inventory_by_product_location(inv, p, l)
    IN  IF i = 0 THEN [inventory |-> inv, status |-> "false"]
        ELSE LET available == inv[i].quantity_on_hand - inv[i].reserved_quantity
             IN  IF available < quantity
                 THEN [inventory |-> inv, status |-> "false"]
                 ELSE [inventory |-> [inv EXCEPT ![i].reserved_quantity = @ + quantity],
                       status |-> "ok"]

\* release_reservation without the floor at zero.
release_reservation_unclamped(inv, p, l, quantity) ==
    LET i == get_inventory_by_product_location(inv, p, l)
    IN  IF i = 0 THEN [inventory |-> inv, status |-> "false"]
        ELSE [inventory |-> [inv EXCEPT ![i].reserved_quantity = @ - quantity],
              status |-> "ok"]

\* InventoryService.release_reservation: [inventory, status].
release_reservation(inv, p, l, quantity) ==
    LET i == get_inventory_by_product_location(inv, p, l)
    IN  IF i = 0 THEN [inventory |-> inv, status |-> "false"]
        ELSE [inventory |-> [inv EXCEPT ![i].reserved_quantity = max(0, @ - quantity)],
              status |-> "ok"]

\* -------------------------------------------------- the transaction processor
\* _validate_transaction refusing to take out exactly what is available.
_validate_transaction_strict(inv, d) ==
    IF d.quantity = 0 THEN "ZeroQuantity"
    ELSE IF d.transaction_type = "IN" /\ d.quantity <= 0 THEN "WrongSign"
    ELSE IF d.transaction_type = "OUT" /\ d.quantity >= 0 THEN "WrongSign"
    ELSE IF /\ d.transaction_type \in {"OUT", "TRANSFER"}
            /\ d.quantity < 0
            /\ get_available_quantity(inv, d.product_id, d.location_id) <= abs(d.quantity)
         THEN "InsufficientStock"
    ELSE "ok"

\* _validate_transaction without the sign rules of IN and OUT.
_validate_transaction_unsigned(inv, d) ==
    IF d.quantity = 0 THEN "ZeroQuantity"
    ELSE IF /\ d.transaction_type \in {"OUT", "TRANSFER"}
            /\ d.quantity < 0
            /\ get_available_quantity(inv, d.product_id, d.location_id) < abs(d.quantity)
         THEN "InsufficientStock"
    ELSE "ok"

\* _validate_transaction holding every negative quantity, adjustments
\* included, against the available quantity.
_validate_transaction_available(inv, d) ==
    IF d.quantity = 0 THEN "ZeroQuantity"
    ELSE IF d.transaction_type = "IN" /\ d.quantity <= 0 THEN "WrongSign"
    ELSE IF d.transaction_type = "OUT" /\ d.quantity >= 0 THEN "WrongSign"
    ELSE IF /\ d.quantity < 0
            /\ get_available_quantity(inv, d.product_id, d.location_id) < abs(d.quantity)
         THEN "InsufficientStock"
    ELSE "ok"

\* TransactionService._validate_transaction: "ok" or the error it raises.
_validate_transaction(inv, d) ==
    IF d.quantity = 0 THEN "ZeroQuantity"
    ELSE IF d.transaction_type = "IN" /\ d.quantity <= 0 THEN "WrongSign"
    ELSE IF d.transaction_type = "OUT" /\ d.quantity >= 0 THEN "WrongSign"
    ELSE IF /\ d.transaction_type \in {"OUT", "TRANSFER"}
            /\ d.quantity < 0
            /\ get_available_quantity(inv, d.product_id, d.location_id) < abs(d.quantity)
         THEN "InsufficientStock"
    ELSE "ok"

\* _process_inventory_update writing the new quantity together with a
\* reserved quantity of zero.
_process_inventory_update_resetting(inv, t) ==
    LET p == t.product_id
        l == t.location_id
        i == get_inventory_by_product_location(inv, p, l)
        created == update_inventory(inv, p, l, InventoryUpdate(<<0>>, <<0>>))
    IN  IF i = 0 /\ created.status # "ok"
        THEN [inventory |-> inv, committed |-> FALSE, status |-> created.status]
        ELSE LET inv1 == IF i = 0 THEN created.inventory ELSE inv
                 k == IF i = 0 THEN created.row ELSE i
                 new_quantity == inv1[k].quantity_on_hand + t.quantity
                 updated == update_inventory(inv1, p, l,
                                             InventoryUpdate(<<new_quantity>>, <<0>>))
             IN  IF new_quantity < 0 /\ ~allow_negative_inventory
                 THEN [inventory |-> inv1, committed |-> (i = 0),
                       status |-> "NegativeInventory"]
                 ELSE IF updated.status # "ok"
                 THEN [inventory |-> inv1, committed |-> (i = 0),
                       status |-> updated.status]
                 ELSE [inventory |-> updated.inventory, committed |-> TRUE,
                       status |-> "ok"]

\* TransactionService._process_inventory_update for the flushed row t:
\* [inventory, committed, status].  `committed` tells whether the session was
\* committed on the way (update_inventory commits), which also commits t.
_process_inventory_update(inv, t) ==
    LET p == t.product_id
        l == t.location_id
        i == get_inventory_by_product_location(inv, p, l)
        created == update_inventory(inv, p, l, InventoryUpdate(<<0>>, <<0>>))
    IN  IF i = 0 /\ created.status # "ok"
        THEN [inventory |-> inv, committed |-> FALSE, status |-> created.status]
        ELSE LET inv1 == IF i = 0 THEN created.inventory ELSE inv
                 k == IF i = 0 THEN created.row ELSE i
                 new_quantity == inv1[k].quantity_on_hand + t.quantity
                 updated == update_inventory(inv1, p, l,
                                             InventoryUpdate(<<new_quantity>>, <<>>))
             IN  IF new_quantity < 0 /\ ~allow_negative_inventory
                 THEN [inventory |-> inv1, committed |-> (i = 0),
                       status |-> "NegativeInventory"]
                 ELSE IF updated.status # "ok"
                 THEN [inventory |-> inv1, committed |-> (i = 0),
                       status |-> updated.status]
                 ELSE [inventory |-> updated.inventory, committed |-> TRUE,
                       status |-> "ok"]

\* TransactionService.create_transaction on the committed database db:
\* [inventory, transactions, status], the committed database it leaves.
create_transaction(db, d) ==
    IF d.product_id \notin ProductIds
    THEN [inventory |-> db.inventory, transactions |-> db.transactions,
          status |-> "NotFound"]
    ELSE IF d.location_id \notin LocationIds
    THEN [inventory |-> db.inventory, transactions |-> db.transactions,
          status |-> "NotFound"]
    ELSE IF _validate_transaction(db.inventory, d) # "ok"
    THEN [inventory |-> db.inventory, transactions |-> db.transactions,
          status |-> _validate_transaction(db.inventory, d)]
    ELSE LET u == _process_inventory_update(db.inventory, Transaction(d))
         IN  [inventory |-> u.inventory,
              transactions |-> IF u.committed
                               THEN Append(db.transactions, Transaction(d))
                               ELSE db.transactions,
              status |-> u.status]

\* TransactionService.create_bulk_transactions: the items one after the
\* other, each committing for itself; the first failure stops the loop and
\* rolls back what the session has not committed.
RECURSIVE create_bulk_transactions(_, _)
create_bulk_transactions(db, transactions_data) ==
    IF transactions_data = <<>>
    THEN [inventory |-> db.inventory, transactions |-> db.transactions,
          status |-> "ok", applied |-> 0]
    ELSE LET c == create_transaction(db, Head(transactions_data))
         IN  IF c.status # "ok"
             THEN [inventory |-> c.inventory, transactions |-> c.transactions,
                   status |-> c.status, applied |-> 0]
             ELSE LET rest == create_bulk_transactions(
                                 [inventory |-> c.inventory,
                                  transactions |-> c.transactions],
                                 Tail(transactions_data))
                  IN  [rest EXCEPT !.applied = @ + 1]

process_stock_receipt(db, p, l, quantity) ==
    create_transaction(db, TransactionCreate(p, l, "IN", abs(quantity)))

process_stock_shipment(db, p, l, quantity) ==
    create_transaction(db, TransactionCreate(p, l, "OUT", -abs(quantity)))

process_stock_adjustment(db, p, l, adjustment_quantity) ==
    create_transaction(db, TransactionCreate(p, l, "ADJUSTMENT", adjustment_quantity))

\* process_stock_transfer posting the incoming leg with the sign of the
\* outgoing one.
process_stock_transfer_same_sign(db, p, from_location_id, to_location_id, quantity) ==
    IF from_location_id = to_location_id
    THEN [inventory |-> db.inventory, transactions |-> db.transactions,
          status |-> "SameLocation"]
    ELSE IF get_available_quantity(db.inventory, p, from_location_id) < quantity
    THEN [inventory |-> db.inventory, transactions |-> db.transactions,
          status |-> "InsufficientStock"]
    ELSE LET out == create_transaction(db,
                        TransactionCreate(p, from_location_id, "TRANSFER", -abs(quantity)))
         IN  IF out.status # "ok" THEN out
             ELSE create_transaction(
                      [inventory |-> out.inventory, transactions |-> out.transactions],
                      TransactionCreate(p, to_location_id, "TRANSFER", -abs(quantity)))

\* TransactionService.process_stock_transfer: two create_transaction calls
\* in one session, the first committed before the second starts.
process_stock_transfer(db, p, from_location_id, to_location_id, quantity) ==
    IF from_location_id = to_location_id
    THEN [inventory |-> db.inventory, transactions |-> db.transactions,
          status |-> "SameLocation"]
    ELSE IF get_available_quantity(db.inventory, p, from_location_id) < quantity
    THEN [inventory |-> db.inventory, transactions |-> db.transactions,
          status |-> "InsufficientStock"]
    ELSE LET out == create_transaction(db,
                        TransactionCreate(p, from_location_id, "TRANSFER", -abs(quantity)))
         IN  IF out.status # "ok" THEN out
             ELSE create_transaction(
                      [inventory |-> out.inventory, transactions |-> out.transactions],
                      TransactionCreate(p, to_location_id, "TRANSFER", abs(quantity)))

\* The committed database of the current state.
Db == [inventory |-> inventory, transactions |-> transactions]

\* No request is between its read and its write.
Idle == [s \in 1..NumRequests |-> [pc |-> "idle"]]

\* Names given to the locations and SKUs given to the products of Init.
SeedNames == <<"a", "b", "c", "d">>

\* The database of the ledger specifications: NumProducts products created
\* before any location existed (so without ledger rows), then NumLocations
\* locations, and no supplier.
Init ==
    /\ inventory = <<>>
    /\ transactions = <<>>
    /\ result = [op |-> "init", status |-> "ok"]
    /\ products = [i \in 1..NumProducts |-> Product(SeedNames[i], <<>>, 1)]
    /\ locations = [i \in 1..NumLocations |-> Location(SeedNames[i], <<>>)]
    /\ suppliers = <<>>
    /\ inflight = Idle

\* The database after create_db_and_tables: every table empty.
InitEmpty ==
    /\ inventory = <<>>
    /\ transactions = <<>>
    /\ result = [op |-> "init", status |-> "ok"]
    /\ products = <<>>
    /\ locations = <<>>
    /\ suppliers = <<>>
    /\ inflight = Idle

\* Every handler is followed while the transactions table holds fewer than
\* MaxTxns rows and the request cannot take it beyond MaxTxns.
Room(n) == Len(transactions) + n <= MaxTxns

\* PUT /inventory/{product_id}/{location_id}
UpdateInventoryAt(p, l, data) ==
    LET u == update_inventory(inventory, p, l, data)
    IN  /\ inventory' = u.inventory
        /\ result' = [op |-> "update_inventory", status |-> u.status]
        /\ UNCHANGED <<transactions, catalog, inflight>>

UpdateInventory ==
    /\ Room(1)
    /\ \E p \in AnyProductId, l \in AnyLocationId,
          q \in Optional({-1, MaxQty}), r \in Optional({-1, 1}) :
        UpdateInventoryAt(p, l, InventoryUpdate(q, r))

\* POST /inventory/{product_id}/{location_id}/reserve (quantity >= 1)
ReserveInventoryAt(p, l, q) ==
    LET u == reserve_inventory(inventory, p, l, q)
    IN  /\ inventory' = u.inventory
        /\ result' = [op |-> "reserve", status |-> u.status]
        /\ UNCHANGED <<transactions, catalog, inflight>>

ReserveInventory ==
    /\ Room(1)
    /\ \E p \in AnyProductId, l \in AnyLocationId, q \in 1..MaxQty :
        ReserveInventoryAt(p, l, q)

\* POST /inventory/{product_id}/{location_id}/release (quantity >= 1)
ReleaseReservationAt(p, l, q) ==
    LET u == release_reservation(inventory, p, l, q)
    IN  /\ inventory' = u.inventory
        /\ result' = [op |-> "release", status |-> u.status]
        /\ UNCHANGED <<transactions, catalog, inflight>>

ReleaseReservation ==
    /\ Room(1)
    /\ \E p \in AnyProductId, l \in AnyLocationId, q \in 1..MaxQty :
        ReleaseReservationAt(p, l, q)

\* The committed database c is what the handler `op` leaves behind.
Leaves(op, c) ==
    /\ inventory' = c.inventory
    /\ transactions' = c.transactions
    /\ result' = [op |-> op, status |-> c.status]
    /\ UNCHANGED <<catalog, inflight>>

\* POST /transactions/
CreateTransactionAt(d) == Leaves("create_transaction", create_transaction(Db, d))

CreateTransaction ==
    /\ Room(1)
    /\ \E p \in AnyProductId, l \in AnyLocationId, t \in TransactionType,
          q \in -MaxQty..MaxQty :
        CreateTransactionAt(TransactionCreate(p, l, t, q))

\* POST /transactions/receipt (quantity >= 1)
ReceiptAt(p, l, q) == Leaves("receipt", process_stock_receipt(Db, p, l, q))

Receipt ==
    /\ Room(1)
    /\ \E p \in AnyProductId, l \in AnyLocationId, q \in 1..MaxQty :
        ReceiptAt(p, l, q)

\* POST /transactions/shipment (quantity >= 1)
ShipmentAt(p, l, q) == Leaves("shipment", process_stock_shipment(Db, p, l, q))

Shipment ==
    /\ Room(1)
    /\ \E p \in AnyProductId, l \in AnyLocationId, q \in 1..MaxQty :
        ShipmentAt(p, l, q)

\* POST /transactions/adjustment
AdjustmentAt(p, l, q) == Leaves("adjustment", process_stock_adjustment(Db, p, l, q))

Adjustment ==
    /\ Room(1)
    /\ \E p \in AnyProductId, l \in AnyLocationId, q \in -MaxQty..MaxQty :
        AdjustmentAt(p, l, q)

\* POST /transactions/transfer (quantity >= 1)
TransferAt(p, a, b, q) == Leaves("transfer", process_stock_transfer(Db, p, a, b, q))

Transfer ==
    /\ Room(2)
    /\ \E p \in AnyProductId, a \in AnyLocationId, b \in AnyLocationId,
          q \in 1..MaxQty :
        TransferAt(p, a, b, q)

\* Bodies of POST /transactions/batch: lists of 1..MaxBatch items.
BatchItems ==
    {TransactionCreate(p, l, "IN", 1) : p \in ProductIds, l \in AnyLocationId}
    \cup {TransactionCreate(p, l, "OUT", -MaxQty) : p \in ProductIds, l \in LocationIds}
    \cup {TransactionCreate(p, l, "ADJUSTMENT", 1) : p \in ProductIds, l \in LocationIds}

Batches == UNION {[1..n -> BatchItems] : n \in 1..MaxBatch}

\* POST /transactions/batch
CreateBulkTransactionsAt(b) == Leaves("bulk", create_bulk_transactions(Db, b))

CreateBulkTransactions ==
    \E b \in Batches :
        /\ Room(Len(b))
        /\ CreateBulkTransactionsAt(b)

\* ------------------------------------------------------ products (catalog)
\* The id SQLite gives the next row of a table without AUTOINCREMENT: one
\* more than the largest id in use.
NextId(tbl) ==
    IF DOMAIN tbl = {} THEN 1
    ELSE (CHOOSE i \in DOMAIN tbl : \A j \in DOMAIN tbl : j <= i) + 1

\* The table tbl without the row id.
Without(tbl, id) == [i \in DOMAIN tbl \ {id} |-> tbl[i]]

\* Creates stop once the catalog holds MaxCatalog rows.
CatalogRoom ==
    Cardinality(ProductIds) + Cardinality(LocationIds) + Cardinality(SupplierIds)
        < MaxCatalog

\* Business keys the requests use; "" is the empty string.
Skus == {"a", "b"}
Names == {"", "a"}
Codes == {"", "x"}

\* The ids in S in increasing order.
RECURSIVE Ascending(_)
Ascending(S) ==
    IF S = {} THEN <<>>
    ELSE LET m == CHOOSE i \in S : \A j \in S : i <= j
         IN  <<m>> \o Ascending(S \ {m})

\* InventoryService._create_initial_inventory_records on the ledger inv: a
\* zero row for every active location that has no row for product_id yet.
RECURSIVE _create_initial_inventory_records(_, _, _)
_create_initial_inventory_records(inv, product_id, locs) ==
    IF locs = <<>> THEN inv
    ELSE LET l == Head(locs)
             inv1 == IF get_inventory_by_product_location(inv, product_id, l) = 0
                     THEN Append(inv, Inventory(product_id, l, 0, 0))
                     ELSE inv
         IN  _create_initial_inventory_records(inv1, product_id, Tail(locs))

\* A supplier reference that is set must name an active supplier.
ValidSupplier(supplier_id) ==
    \/ supplier_id = <<>>
    \/ supplier_id[1] \in SupplierIds /\ suppliers[supplier_id[1]].is_active

\* POST /products/ (InventoryService.create_product)
CreateProductAt(sku, supplier_id, reorder_point) ==
    IF \E p \in ProductIds : products[p].sku = sku
    THEN /\ result' = [op |-> "create_product", status |-> "DuplicateKey"]
         /\ UNCHANGED <<inventory, transactions, catalog, inflight>>
    ELSE IF ~ValidSupplier(supplier_id)
    THEN /\ result' = [op |-> "create_product", status |-> "InvalidSupplier"]
         /\ UNCHANGED <<inventory, transactions, catalog, inflight>>
    ELSE LET id == NextId(products)
             active == {l \in LocationIds : locations[l].is_active}
         IN  /\ products' = products @@ (id :> Product(sku, supplier_id, reorder_point))
             /\ inventory' = _create_initial_inventory_records(inventory, id,
                                                                 Ascending(active))
             /\ result' = [op |-> "create_product", status |-> "ok"]
             /\ UNCHANGED <<transactions, locations, suppliers, inflight>>

CreateProduct ==
    /\ CatalogRoom
    /\ NextId(products) \in AnyProductId
    /\ \E sku \in Skus, supplier_id \in Optional(AnySupplierId), reorder_point \in 0..1 :
        CreateProductAt(sku, supplier_id, reorder_point)

\* PUT /products/{product_id} (InventoryService.update_product) with a body
\* that sets supplier_id (<<>> unset, <<<<>>>> null), is_active and
\* reorder_point (<<>> unset).  ProductUpdate puts no bound on reorder_point
\* and the fields are stored with setattr, so a negative one is stored too.
UpdateProductAt(product_id, supplier_id, is_active, reorder_point) ==
    IF product_id \notin ProductIds
    THEN /\ result' = [op |-> "update_product", status |-> "NotFound"]
         /\ UNCHANGED <<inventory, transactions, catalog, inflight>>
    ELSE IF supplier_id # <<>> /\ ~ValidSupplier(supplier_id[1])
    THEN /\ result' = [op |-> "update_product", status |-> "InvalidSupplier"]
         /\ UNCHANGED <<inventory, transactions, catalog, inflight>>
    ELSE /\ products' = [products EXCEPT
                            ![product_id].supplier_id =
                                IF supplier_id # <<>> THEN supplier_id[1] ELSE @,
                            ![product_id].is_active =
                                IF is_active # <<>> THEN is_active[1] ELSE @,
                            ![product_id].reorder_point =
                                IF reorder_point # <<>> THEN reorder_point[1] ELSE @]
         /\ result' = [op |-> "update_product", status |-> "ok"]
         /\ UNCHANGED <<inventory, transactions, locations, suppliers, inflight>>

UpdateProduct ==
    \E product_id \in AnyProductId, supplier_id \in Optional(Optional(AnySupplierId)),
       is_active \in Optional(BOOLEAN), reorder_point \in Optional(-1..1) :
        UpdateProductAt(product_id, supplier_id, is_active, reorder_point)

\* DELETE /products/{product_id} (InventoryService.delete_product)
DeleteProductAt(product_id) ==
    IF product_id \notin ProductIds
    THEN /\ result' = [op |-> "delete_product", status |-> "NotFound"]
         /\ UNCHANGED <<inventory, transactions, catalog, inflight>>
    ELSE /\ products' = [products EXCEPT ![product_id].is_active = FALSE]
         /\ result' = [op |-> "delete_product", status |-> "ok"]
         /\ UNCHANGED <<inventory, transactions, locations, suppliers, inflight>>

DeleteProduct == \E product_id \in AnyProductId : DeleteProductAt(product_id)

\* The rows of the sequence rows at the positions in keep, in their order
\* (what is left of a table after the other rows are deleted).
RECURSIVE KeepRows(_, _)
KeepRows(rows, keep) ==
    IF rows = <<>> THEN <<>>
    ELSE KeepRows(SubSeq(rows, 1, Len(rows) - 1), keep)
         \o (IF Len(rows) \in keep THEN <<rows[Len(rows)]>> ELSE <<>>)

\* delete_product_permanently that only looks at the ledger quantities.
DeleteProductPermanentlyAt_ignoring_history(product_id) ==
    IF product_id \notin ProductIds
    THEN /\ result' = [op |-> "delete_product_permanently", status |-> "NotFound"]
         /\ UNCHANGED <<inventory, transactions, catalog, inflight>>
    ELSE LET inventory_items == get_inventory(inventory, product_id)
             has_meaningful_inventory ==
                 \E i \in inventory_items :
                     inventory[i].quantity_on_hand > 0 \/ inventory[i].reserved_quantity > 0
         IN  IF has_meaningful_inventory
             THEN /\ result' = [op |-> "delete_product_permanently",
                                status |-> "BusinessRuleViolation"]
                  /\ UNCHANGED <<inventory, transactions, catalog, inflight>>
             ELSE /\ inventory' = KeepRows(inventory,
                                           (1..Len(inventory)) \ inventory_items)
                  /\ transactions' = KeepRows(transactions,
                         {i \in 1..Len(transactions) :
                             transactions[i].product_id # product_id})
                  /\ products' = Without(products, product_id)
                  /\ result' = [op |-> "delete_product_permanently", status |-> "ok"]
                  /\ UNCHANGED <<locations, suppliers, inflight>>

\* DELETE /products/{product_id}/permanent
\* (InventoryService.delete_product_permanently)
DeleteProductPermanentlyAt(product_id) ==
    IF product_id \notin ProductIds
    THEN /\ result' = [op |-> "delete_product_permanently", status |-> "NotFound"]
         /\ UNCHANGED <<inventory, transactions, catalog, inflight>>
    ELSE LET has_transactions ==
                 \E i \in 1..Len(transactions) : transactions[i].product_id = product_id
             inventory_items == get_inventory(inventory, product_id)
             has_meaningful_inventory ==
                 \E i \in inventory_items :
                     inventory[i].quantity_on_hand > 0 \/ inventory[i].reserved_quantity > 0
         IN  IF has_transactions \/ has_meaningful_inventory
             THEN /\ result' = [op |-> "delete_product_permanently",
                                status |-> "BusinessRuleViolation"]
                  /\ UNCHANGED <<inventory, transactions, catalog, inflight>>
             ELSE /\ inventory' = KeepRows(inventory,
                                           (1..Len(inventory)) \ inventory_items)
                  /\ products' = Without(products, product_id)
                  /\ result' = [op |-> "delete_product_permanently", status |-> "ok"]
                  /\ UNCHANGED <<transactions, locations, suppliers, inflight>>

DeleteProductPermanently ==
    \E product_id \in AnyProductId : DeleteProductPermanentlyAt(product_id)

\* ----------------------------------------------------- suppliers (catalog)
\* The catalog is left as it is and the handler `op` ends with `status`.
Refused(op, status) ==
    /\ result' = [op |-> op, status |-> status]
    /\ UNCHANGED <<inventory, transactions, catalog, inflight>>

\* POST /suppliers/ (SupplierService.create_supplier)
CreateSupplierAt(name) ==
    IF \E x \in SupplierIds : suppliers[x].name = name
    THEN Refused("create_supplier", "DuplicateKey")
    ELSE /\ suppliers' = suppliers @@ (NextId(suppliers) :> Supplier(name))
         /\ result' = [op |-> "create_supplier", status |-> "ok"]
         /\ UNCHANGED <<inventory, transactions, products, locations, inflight>>

CreateSupplier ==
    /\ CatalogRoom
    /\ NextId(suppliers) \in AnySupplierId
    /\ \E name \in Names : CreateSupplierAt(name)

\* PUT /suppliers/{supplier_id} (SupplierService.update_supplier) with a
\* body that sets name and is_active (<<>> when unset).  The name check runs
\* only for a name that is truthy, which the empty string is not.
UpdateSupplierAt(supplier_id, name, is_active) ==
    IF supplier_id \notin SupplierIds
    THEN Refused("update_supplier", "NotFound")
    ELSE IF /\ name # <<>> /\ name[1] # "" /\ name[1] # suppliers[supplier_id].name
            /\ \E x \in SupplierIds : suppliers[x].name = name[1]
    THEN Refused("update_supplier", "DuplicateKey")
    ELSE /\ suppliers' = [suppliers EXCEPT
                             ![supplier_id].name = IF name # <<>> THEN name[1] ELSE @,
                             ![supplier_id].is_active =
                                 IF is_active # <<>> THEN is_active[1] ELSE @]
         /\ result' = [op |-> "update_supplier", status |-> "ok"]
         /\ UNCHANGED <<inventory, transactions, products, locations, inflight>>

UpdateSupplier ==
    \E supplier_id \in AnySupplierId, name \in Optional(Names),
       is_active \in Optional(BOOLEAN) :
        UpdateSupplierAt(supplier_id, name, is_active)

\* DELETE /suppliers/{supplier_id} (SupplierService.delete_supplier)
DeleteSupplierAt(supplier_id) ==
    IF supplier_id \notin SupplierIds
    THEN Refused("delete_supplier", "NotFound")
    ELSE IF \E p \in ProductIds :
                products[p].supplier_id = <<supplier_id>> /\ products[p].is_active
    THEN Refused("delete_supplier", "BusinessRuleViolation")
    ELSE /\ suppliers' = [suppliers EXCEPT ![supplier_id].is_active = FALSE]
         /\ result' = [op |-> "delete_supplier", status |-> "ok"]
         /\ UNCHANGED <<inventory, transactions, products, locations, inflight>>

DeleteSupplier == \E supplier_id \in AnySupplierId : DeleteSupplierAt(supplier_id)

\* delete_supplier_permanently without the look at the supplier's products.
DeleteSupplierPermanentlyAt_unchecked(supplier_id) ==
    IF supplier_id \notin SupplierIds
    THEN Refused("delete_supplier_permanently", "NotFound")
    ELSE /\ suppliers' = Without(suppliers, supplier_id)
         /\ result' = [op |-> "delete_supplier_permanently", status |-> "ok"]
         /\ UNCHANGED <<inventory, transactions, products, locations, inflight>>

\* DELETE /suppliers/{supplier_id}/permanent
\* (SupplierService.delete_supplier_permanently)
DeleteSupplierPermanentlyAt(supplier_id) ==
    IF supplier_id \notin SupplierIds
    THEN Refused("delete_supplier_permanently", "NotFound")
    ELSE IF \E p \in ProductIds : products[p].supplier_id = <<supplier_id>>
    THEN Refused("delete_supplier_permanently", "BusinessRuleViolation")
    ELSE /\ suppliers' = Without(suppliers, supplier_id)
         /\ result' = [op |-> "delete_supplier_permanently", status |-> "ok"]
         /\ UNCHANGED <<inventory, transactions, products, locations, inflight>>

DeleteSupplierPermanently ==
    \E supplier_id \in AnySupplierId : DeleteSupplierPermanentlyAt(supplier_id)

\* ----------------------------------------------------- locations (catalog)
\* UNIQUE(code) of table `locations`: no two rows share a non-null code.
CodeUnique(locs) ==
    \A x \in DOMAIN locs, y \in DOMAIN locs :
        (x # y /\ locs[x].code # <<>>) => locs[x].code # locs[y].code

\* The locations table becomes locs unless that breaks UNIQUE(code), in which
\* case the commit raises IntegrityError and the session is rolled back.
CommitLocations(op, locs) ==
    IF CodeUnique(locs)
    THEN /\ locations' = locs
         /\ result' = [op |-> op, status |-> "ok"]
         /\ UNCHANGED <<inventory, transactions, products, suppliers, inflight>>
    ELSE Refused(op, "IntegrityError")

\* POST /locations/ (LocationService.create_location); the code check runs
\* only for a code that is truthy (neither null nor the empty string).
CreateLocationAt(name, code) ==
    IF \E x \in LocationIds : locations[x].name = name
    THEN Refused("create_location", "DuplicateKey")
    ELSE IF /\ code # <<>> /\ code[1] # ""
            /\ \E x \in LocationIds : locations[x].code = code
    THEN Refused("create_location", "DuplicateKey")
    ELSE CommitLocations("create_location",
                         locations @@ (NextId(locations) :> Location(name, code)))

CreateLocation ==
    /\ CatalogRoom
    /\ NextId(locations) \in AnyLocationId
    /\ \E name \in Names, code \in Optional(Codes) : CreateLocationAt(name, code)

\* PUT /locations/{location_id} (LocationService.update_location) with a
\* body that sets name, code and is_active (<<>> when unset).
UpdateLocationAt(location_id, name, code, is_active) ==
    IF location_id \notin LocationIds
    THEN Refused("update_location", "NotFound")
    ELSE IF /\ name # <<>> /\ name[1] # "" /\ name[1] # locations[location_id].name
            /\ \E x \in LocationIds : locations[x].name = name[1]
    THEN Refused("update_location", "DuplicateKey")
    ELSE IF /\ code # <<>> /\ code[1] # "" /\ code # locations[location_id].code
            /\ \E x \in LocationIds : locations[x].code = code
    THEN Refused("update_location", "DuplicateKey")
    ELSE CommitLocations("update_location",
             [locations EXCEPT
                 ![location_id].name = IF name # <<>> THEN name[1] ELSE @,
                 ![location_id].code = IF code # <<>> THEN code ELSE @,
                 ![location_id].is_active = IF is_active # <<>> THEN is_active[1] ELSE @])

UpdateLocation ==
    \E location_id \in AnyLocationId, name \in Optional(Names), code \in Optional(Codes),
       is_active \in Optional(BOOLEAN) :
        UpdateLocationAt(location_id, name, code, is_active)

\* DELETE /locations/{location_id} (LocationService.delete_location)
DeleteLocationAt(location_id) ==
    IF location_id \notin LocationIds
    THEN Refused("delete_location", "NotFound")
    ELSE IF \E i \in 1..Len(inventory) :
                inventory[i].location_id = location_id /\ inventory[i].quantity_on_hand > 0
    THEN Refused("delete_location", "BusinessRuleViolation")
    ELSE /\ locations' = [locations EXCEPT ![location_id].is_active = FALSE]
         /\ result' = [op |-> "delete_location", status |-> "ok"]
         /\ UNCHANGED <<inventory, transactions, products, suppliers, inflight>>

DeleteLocation == \E location_id \in AnyLocationId : DeleteLocationAt(location_id)

\* delete_location_permanently taking the location's Transaction rows with it
\* instead of refusing.
DeleteLocationPermanentlyAt_cascading(location_id) ==
    IF location_id \notin LocationIds
    THEN Refused("delete_location_permanently", "NotFound")
    ELSE IF \E i \in 1..Len(inventory) :
                inventory[i].location_id = location_id /\ inventory[i].quantity_on_hand > 0
    THEN Refused("delete_location_permanently", "BusinessRuleViolation")
    ELSE /\ inventory' = KeepRows(inventory,
                 {i \in 1..Len(inventory) : inventory[i].location_id # location_id})
         /\ transactions' = KeepRows(transactions,
                 {i \in 1..Len(transactions) : transactions[i].location_id # location_id})
         /\ locations' = Without(locations, location_id)
         /\ result' = [op |-> "delete_location_permanently", status |-> "ok"]
         /\ UNCHANGED <<products, suppliers, inflight>>

\* DELETE /locations/{location_id}/permanent
\* (LocationService.delete_location_permanently)
DeleteLocationPermanentlyAt(location_id) ==
    IF location_id \notin LocationIds
    THEN Refused("delete_location_permanently", "NotFound")
    ELSE IF \E i \in 1..Len(inventory) :
                inventory[i].location_id = location_id /\ inventory[i].quantity_on_hand > 0
    THEN Refused("delete_location_permanently", "BusinessRuleViolation")
    ELSE IF \E i \in 1..Len(transactions) : transactions[i].location_id = location_id
    THEN Refused("delete_location_permanently", "BusinessRuleViolation")
    ELSE /\ inventory' = KeepRows(inventory,
                 {i \in 1..Len(inventory) : inventory[i].location_id # location_id})
         /\ locations' = Without(locations, location_id)
         /\ result' = [op |-> "delete_location_permanently", status |-> "ok"]
         /\ UNCHANGED <<transactions, products, suppliers, inflight>>

DeleteLocationPermanently ==
    \E location_id \in AnyLocationId : DeleteLocationPermanentlyAt(location_id)

\* Catalog maintenance next to receipts and shipments, from the empty
\* database.
NextCatalog ==
    \/ CreateProduct
    \/ UpdateProduct
    \/ DeleteProduct
    \/ DeleteProductPermanently
    \/ CreateSupplier
    \/ UpdateSupplier
    \/ DeleteSupplier
    \/ DeleteSupplierPermanently
    \/ CreateLocation
    \/ UpdateLocation
    \/ DeleteLocation
    \/ DeleteLocationPermanently
    \/ Receipt
    \/ Shipment

SpecCatalog == InitEmpty /\ [][NextCatalog]_vars

\* Creation, deactivation and removal of products, suppliers and locations
\* next to receipts and direct updates of the ledger quantities, from the
\* empty database.
NextLifecycle ==
    \/ CreateProduct
    \/ UpdateProduct
    \/ DeleteProduct
    \/ DeleteProductPermanently
    \/ CreateSupplier
    \/ DeleteSupplier
    \/ DeleteSupplierPermanently
    \/ CreateLocation
    \/ DeleteLocation
    \/ DeleteLocationPermanently
    \/ Receipt
    \/ UpdateInventory

SpecLifecycle == InitEmpty /\ [][NextLifecycle]_vars

\* ------------------------------------------------------ supplier performance
\* Python's round(x, 2) for x >= 0 given in thousandths, in hundredths: to
\* the nearest hundredth, a tie to the even one.
round2(x) ==
    LET q == x \div 10
        r == x % 10
    IN  IF r < 5 THEN q
        ELSE IF r > 5 THEN q + 1
        ELSE IF q % 2 = 0 THEN q ELSE q + 1

\* SupplierService.get_supplier_products: the ids of the supplier's products.
get_supplier_products(supplier_id) ==
    {p \in ProductIds : products[p].supplier_id = <<supplier_id>>}

\* SupplierService.calculate_supplier_performance for a supplier that
\* exists: the product and receipt counts and the score, which is given in
\* hundredths (the two partial scores in thousandths: total_receipts / 10
\* and lead_time_days / 10 are whole tenths, so their halved sum is a whole
\* number of thousandths).
calculate_supplier_performance(supplier_id) ==
    LET product_ids == get_supplier_products(supplier_id)
        receipt_transactions ==
            {i \in 1..Len(transactions) :
                /\ transactions[i].product_id \in product_ids
                /\ transactions[i].transaction_type = "IN"}
        total_receipts == Cardinality(receipt_transactions)
        activity_score == min(5000, 100 * total_receipts)
        lead_time_score == max(0, 5000 - 100 * suppliers[supplier_id].lead_time_days)
    IN  IF product_ids = {}
        THEN [total_products |-> 0, total_receipts |-> 0, performance_score |-> 0]
        ELSE [total_products |-> Cardinality(product_ids),
              total_receipts |-> total_receipts,
              performance_score |->
                  IF total_receipts > 0
                  THEN round2((activity_score + lead_time_score) \div 2)
                  ELSE round2(0)]

\* GET /suppliers/{supplier_id}/performance
GetSupplierPerformanceAt(supplier_id) ==
    /\ result' = IF supplier_id \notin SupplierIds
                 THEN [op |-> "supplier_performance", status |-> "NotFound"]
                 ELSE [op |-> "supplier_performance", status |-> "ok",
                       supplier_id |-> supplier_id,
                       metrics |-> calculate_supplier_performance(supplier_id)]
    /\ UNCHANGED <<inventory, transactions, catalog, inflight>>

GetSupplierPerformance ==
    \E supplier_id \in AnySupplierId : GetSupplierPerformanceAt(supplier_id)

\* PUT /suppliers/{supplier_id} (SupplierService.update_supplier) with a
\* body that sets lead_time_days; SupplierUpdate puts no limit on it.
UpdateSupplierLeadTimeAt(supplier_id, lead_time_days) ==
    IF supplier_id \notin SupplierIds
    THEN Refused("update_supplier", "NotFound")
    ELSE /\ suppliers' = [suppliers EXCEPT ![supplier_id].lead_time_days = lead_time_days]
         /\ result' = [op |-> "update_supplier", status |-> "ok"]
         /\ UNCHANGED <<inventory, transactions, products, locations, inflight>>

\* Receipt counts and lead times of the databases the score is computed on.
ReceiptCounts == {0, 1, 10, MaxReceipts - 2, MaxReceipts - 1, MaxReceipts}
LeadTimes == {0, 7, MaxLeadTime - 2, MaxLeadTime - 1, MaxLeadTime}

UpdateSupplierLeadTime ==
    \E supplier_id \in AnySupplierId, lead_time_days \in LeadTimes \cup {-MaxLeadTime} :
        UpdateSupplierLeadTimeAt(supplier_id, lead_time_days)

\* The database after a supplier, a location and a product (of the supplier
\* or of none) were created, the supplier's lead time was set, and n
\* receipts of one unit and possibly a shipment of one unit were processed.
InitScore ==
    \E n \in ReceiptCounts, lt \in LeadTimes, s \in Optional({1}), shipped \in 0..1 :
        /\ suppliers = [i \in 1..1 |-> [Supplier("a") EXCEPT !.lead_time_days = lt]]
        /\ locations = [i \in 1..1 |-> Location("a", <<>>)]
        /\ products = [i \in 1..1 |-> Product("a", s, 1)]
        /\ transactions =
               [i \in 1..n |-> Transaction(TransactionCreate(1, 1, "IN", 1))]
               \o (IF shipped = 1 /\ n > 0
                   THEN <<Transaction(TransactionCreate(1, 1, "OUT", -1))>> ELSE <<>>)
        /\ inventory = <<Inventory(1, 1, IF n > 0 THEN n - shipped ELSE 0, 0)>>
        /\ result = [op |-> "init", status |-> "ok"]
        /\ inflight = Idle

NextScore ==
    \/ GetSupplierPerformance
    \/ UpdateSupplierLeadTime

SpecScore == InitScore /\ [][NextScore]_vars

\* ------------------------------------------------------ concurrent requests
\* Requests served by different worker processes on the same database.  A
\* session's SELECT sees what is committed when it runs and takes no lock
\* that outlives it; the writes of a session reach the database together at
\* its commit.  update_inventory is therefore two steps: the fetch of the
\* (product, location) row, and later the INSERT or UPDATE with the commit.

\* PUT /inventory/{p}/{l}, first half: request s runs
\* get_inventory_by_product_location and keeps the row it found (`row` is
\* its position, 0 for none; `seen` its content as loaded).
UpdateInventoryFetch(s, p, l, data) ==
    LET i == get_inventory_by_product_location(inventory, p, l)
    IN  /\ inflight[s].pc = "idle"
        /\ inflight' = [inflight EXCEPT ![s] =
               [pc |-> "fetched", product_id |-> p, location_id |-> l, data |-> data,
                row |-> i,
                seen |-> IF i = 0 THEN Inventory(p, l, 0, 0) ELSE inventory[i]]]
        /\ result' = [op |-> "update_inventory_fetch", status |-> "ok"]
        /\ UNCHANGED <<inventory, transactions, catalog>>

\* The row request s writes: the fields its body sets, when they differ from
\* what it loaded, over the committed row (or over a new zero row).
WrittenRow(s, base) ==
    LET r    == inflight[s]
        qoh  == r.data.quantity_on_hand
        rq   == r.data.reserved_quantity
    IN  [base EXCEPT
            !.quantity_on_hand =
                IF qoh # <<>> /\ (r.row = 0 \/ qoh[1] # r.seen.quantity_on_hand)
                THEN qoh[1] ELSE @,
            !.reserved_quantity =
                IF rq # <<>> /\ (r.row = 0 \/ rq[1] # r.seen.reserved_quantity)
                THEN rq[1] ELSE @]

\* PUT /inventory/{p}/{l}, second half: request s checks its body, then
\* inserts the row it did not find or updates the row it found, and commits.
UpdateInventoryWrite(s) ==
    LET r == inflight[s]
    IN  /\ r.pc = "fetched"
        /\ inflight' = [inflight EXCEPT ![s] = [pc |-> "idle"]]
        /\ UNCHANGED <<transactions, catalog>>
        /\ IF /\ r.data.quantity_on_hand # <<>> /\ r.data.quantity_on_hand[1] < 0
               /\ ~allow_negative_inventory
           THEN /\ result' = [op |-> "update_inventory", status |-> "NegativeInventory"]
                /\ UNCHANGED inventory
           ELSE IF r.row = 0 /\ (r.product_id \notin ProductIds
                                 \/ r.location_id \notin LocationIds)
           THEN /\ result' = [op |-> "update_inventory", status |-> "IntegrityError"]
                /\ UNCHANGED inventory
           ELSE /\ result' = [op |-> "update_inventory", status |-> "ok"]
                /\ inventory' =
                       IF r.row = 0
                       THEN Append(inventory,
                                   WrittenRow(s, Inventory(r.product_id, r.location_id, 0, 0)))
                       ELSE [inventory EXCEPT ![r.row] = WrittenRow(s, @)]

\* A request starts while the ledger has fewer than MaxRows rows.
BeginUpdateInventory ==
    /\ Len(inventory) < MaxRows
    /\ \E s \in 1..NumRequests, p \in AnyProductId, l \in AnyLocationId,
          q \in Optional({-1, 1, MaxQty}), r \in Optional({1}) :
        UpdateInventoryFetch(s, p, l, InventoryUpdate(q, r))

FinishUpdateInventory == \E s \in 1..NumRequests : UpdateInventoryWrite(s)

NextConc ==
    \/ BeginUpdateInventory
    \/ FinishUpdateInventory

SpecConc == Init /\ [][NextConc]_vars

\* POST /transactions/ under concurrency.  create_transaction reads the
\* product, the location and (to validate an outgoing quantity) the ledger
\* row without a lock; the row read by the stock check is a local of
\* get_available_quantity and is not kept.  The flush of the Transaction row
\* opens the write transaction, which lasts to the next commit: the commit of
\* the update_inventory call that writes the new quantity or, when the pair
\* has no ledger row, the commit of the one that creates it.  On that second
\* path the created row is refreshed after the commit and held by
\* _process_inventory_update, and the quantity is written by a second
\* update_inventory call from the values the refresh read.

\* The ledger row that _process_inventory_update reads in the session of
\* request r after the flush: the one committed in inv; row 0, with the zero
\* row to create, when there is none.
SessionRow(r, inv) ==
    LET i == get_inventory_by_product_location(inv, r.data.product_id,
                                               r.data.location_id)
    IN  IF i = 0 THEN [row |-> 0, seen |-> r.seen]
        ELSE [row |-> i, seen |-> inv[i]]

\* The last part of create_transaction in a variant that reads the ledger
\* row again before it writes the new quantity.
CreateTransactionFinish_rereading(s) ==
    LET r == inflight[s]
        new_quantity == inventory[r.row].quantity_on_hand + r.data.quantity
    IN  /\ r.pc = "refreshed"
        /\ UNCHANGED <<transactions, catalog>>
        /\ inflight' = [inflight EXCEPT ![s] = [pc |-> "idle"]]
        /\ IF new_quantity < 0 /\ ~allow_negative_inventory
           THEN /\ result' = [op |-> "create_transaction", status |-> "NegativeInventory"]
                /\ UNCHANGED inventory
           ELSE /\ inventory' = [inventory EXCEPT ![r.row].quantity_on_hand = new_quantity]
                /\ result' = [op |-> "create_transaction", status |-> "ok"]

\* First part of create_transaction in request s: the existence checks and
\* _validate_transaction, whose stock check reads the committed ledger.  A
\* request that passes has no ledger row at hand yet.
CreateTransactionValidate(s, d) ==
    LET v == _validate_transaction(inventory, d)
    IN  /\ inflight[s].pc = "idle"
        /\ UNCHANGED <<inventory, transactions, catalog>>
        /\ IF d.product_id \notin ProductIds \/ d.location_id \notin LocationIds
           THEN /\ result' = [op |-> "create_transaction", status |-> "NotFound"]
                /\ UNCHANGED inflight
           ELSE IF v # "ok"
           THEN /\ result' = [op |-> "create_transaction", status |-> v]
                /\ UNCHANGED inflight
           ELSE /\ result' = [op |-> "create_transaction_validate", status |-> "ok"]
                /\ inflight' = [inflight EXCEPT ![s] =
                       [pc |-> "validated", data |-> d, row |-> 0,
                        seen |-> Inventory(d.product_id, d.location_id, 0, 0)]]

\* Second part: the flush of the Transaction row and
\* _process_inventory_update up to its first commit.  With a committed
\* ledger row, read under the write lock, that is the write of the new
\* quantity and the end of the request;
\* without one it is the creation of the zero row, which commits the
\* Transaction row with it.
CreateTransactionFlush(s) ==
    LET r == inflight[s]
        c == SessionRow(r, inventory)
        new_quantity == c.seen.quantity_on_hand + r.data.quantity
    IN  /\ r.pc = "validated"
        /\ UNCHANGED catalog
        /\ IF c.row = 0
           THEN /\ inventory' = Append(inventory, c.seen)
                /\ transactions' = Append(transactions, Transaction(r.data))
                /\ inflight' = [inflight EXCEPT ![s] =
                       [pc |-> "created", data |-> r.data,
                        row |-> Len(inventory) + 1, seen |-> c.seen]]
                /\ result' = [op |-> "create_transaction_flush", status |-> "ok"]
           ELSE IF new_quantity < 0 /\ ~allow_negative_inventory
           THEN /\ result' = [op |-> "create_transaction", status |-> "NegativeInventory"]
                /\ inflight' = [inflight EXCEPT ![s] = [pc |-> "idle"]]
                /\ UNCHANGED <<inventory, transactions>>
           ELSE /\ inventory' = [inventory EXCEPT ![c.row].quantity_on_hand = new_quantity]
                /\ transactions' = Append(transactions, Transaction(r.data))
                /\ inflight' = [inflight EXCEPT ![s] = [pc |-> "idle"]]
                /\ result' = [op |-> "create_transaction", status |-> "ok"]

\* Third part, after the zero row was created and committed: the
\* session.refresh that ends update_inventory reads the row again, as it is
\* committed by then.
CreateTransactionRefresh(s) ==
    LET r == inflight[s]
    IN  /\ r.pc = "created"
        /\ UNCHANGED <<inventory, transactions, catalog>>
        /\ inflight' = [inflight EXCEPT ![s] =
               [pc |-> "refreshed", data |-> r.data,
                row |-> r.row, seen |-> inventory[r.row]]]
        /\ result' = [op |-> "create_transaction_refresh", status |-> "ok"]

\* Last part on that path: the new quantity, computed from the row as
\* refreshed, is written and committed.
CreateTransactionFinish(s) ==
    LET r == inflight[s]
        new_quantity == r.seen.quantity_on_hand + r.data.quantity
    IN  /\ r.pc = "refreshed"
        /\ UNCHANGED <<transactions, catalog>>
        /\ inflight' = [inflight EXCEPT ![s] = [pc |-> "idle"]]
        /\ IF new_quantity < 0 /\ ~allow_negative_inventory
           THEN /\ result' = [op |-> "create_transaction", status |-> "NegativeInventory"]
                /\ UNCHANGED inventory
           ELSE /\ inventory' = [inventory EXCEPT ![r.row].quantity_on_hand = new_quantity]
                /\ result' = [op |-> "create_transaction", status |-> "ok"]

\* Requests that are past their validation.
Running == {s \in 1..NumRequests : inflight[s].pc # "idle"}

\* A request starts while the rows persisted and those the running requests
\* may still add stay within MaxRaceTxns.
BeginCreateTransaction ==
    /\ Len(transactions) + Cardinality(Running) < MaxRaceTxns
    /\ \E s \in 1..NumRequests, p \in AnyProductId, l \in AnyLocationId,
          t \in TransactionType, q \in -MaxQty..MaxQty :
        CreateTransactionValidate(s, TransactionCreate(p, l, t, q))

FlushCreateTransaction == \E s \in 1..NumRequests : CreateTransactionFlush(s)

RefreshCreateTransaction == \E s \in 1..NumRequests : CreateTransactionRefresh(s)

FinishCreateTransaction == \E s \in 1..NumRequests : CreateTransactionFinish(s)

NextRace ==
    \/ BeginCreateTransaction
    \/ FlushCreateTransaction
    \/ RefreshCreateTransaction
    \/ FinishCreateTransaction

SpecRace == Init /\ [][NextRace]_vars

Next ==
    \/ UpdateInventory
    \/ ReserveInventory
    \/ ReleaseReservation
    \/ CreateTransaction
    \/ Receipt
    \/ Shipment
    \/ Adjustment
    \/ Transfer
    \/ CreateBulkTransactions

Spec == Init /\ [][Next]_vars

\* Stock movements and reservations alone: no adjustment, no raw or bulk
\* transaction, no direct PUT on the ledger.
\* These are followed while the transactions table stays within
\* MaxStockTxns rows, which leaves room for a receipt, a transfer and a
\* shipment in a row.
StockRoom(n) == Len(transactions) + n <= MaxStockTxns

StockReceipt ==
    /\ StockRoom(1)
    /\ \E p \in AnyProductId, l \in AnyLocationId, q \in 1..MaxQty : ReceiptAt(p, l, q)

StockShipment ==
    /\ StockRoom(1)
    /\ \E p \in AnyProductId, l \in AnyLocationId, q \in 1..MaxQty : ShipmentAt(p, l, q)

StockTransfer ==
    /\ StockRoom(2)
    /\ \E p \in AnyProductId, a \in AnyLocationId, b \in AnyLocationId,
          q \in 1..MaxQty :
        TransferAt(p, a, b, q)

StockReserve ==
    /\ StockRoom(1)
    /\ \E p \in AnyProductId, l \in AnyLocationId, q \in 1..MaxQty :
        ReserveInventoryAt(p, l, q)

StockRelease ==
    /\ StockRoom(1)
    /\ \E p \in AnyProductId, l \in AnyLocationId, q \in 1..MaxQty :
        ReleaseReservationAt(p, l, q)

NextStock ==
    \/ StockReceipt
    \/ StockShipment
    \/ StockTransfer
    \/ StockReserve
    \/ StockRelease

SpecStock == Init /\ [][NextStock]_vars

\* The transaction operations alone: no direct PUT on the ledger.
NextTxn ==
    \/ ReserveInventory
    \/ ReleaseReservation
    \/ CreateTransaction
    \/ Receipt
    \/ Shipment
    \/ Adjustment
    \/ Transfer
    \/ CreateBulkTransactions

SpecTxn == Init /\ [][NextTxn]_vars

\* ------------------------------------------------------------- properties
\* What the ledger inv records for the pair (p, l); 0 when it has no row.
RowsOf(inv, p, l) == {i \in 1..Len(inv) : inv[i].product_id = p /\ inv[i].location_id = l}
HasRow(inv, p, l) == RowsOf(inv, p, l) # {}
OnHand(inv, p, l) ==
    IF HasRow(inv, p, l)
    THEN inv[CHOOSE i \in RowsOf(inv, p, l) : TRUE].quantity_on_hand ELSE 0
Reserved(inv, p, l) ==
    IF HasRow(inv, p, l)
    THEN inv[CHOOSE i \in RowsOf(inv, p, l) : TRUE].reserved_quantity ELSE 0
Available(inv, p, l) == max(0, OnHand(inv, p, l) - Reserved(inv, p, l))

RECURSIVE SumOver(_, _)
SumOver(f, S) ==
    IF S = {} THEN 0
    ELSE LET x == CHOOSE y \in S : TRUE IN f[x] + SumOver(f, S \ {x})

TotalOnHand(inv, p) == SumOver([l \in AnyLocationId |-> OnHand(inv, p, l)], AnyLocationId)

\* Sum of the signed quantities of the rows of txs for the pair (p, l).
Moved(txs, p, l) ==
    SumOver([i \in 1..Len(txs) |->
                IF txs[i].product_id = p /\ txs[i].location_id = l
                THEN txs[i].quantity ELSE 0],
            1..Len(txs))

SingleTransactionOps == {"receipt", "shipment", "adjustment", "create_transaction"}

\* C1: with negative inventory disallowed, quantity_on_hand of every ledger
\* row is >= 0 in every reachable state, whatever sequence of receipts,
\* shipments, transfers, adjustments, raw transactions, reserve/release and
\* direct updates led there.
C1_OnHandNeverNegative ==
    ~allow_negative_inventory =>
        \A i \in 1..Len(inventory) : inventory[i].quantity_on_hand >= 0

\* A request that would have driven on-hand below zero was refused while the
\* ledger holds stock.
C1_Witness ==
    /\ result.status = "NegativeInventory"
    /\ \E i \in 1..Len(inventory) : inventory[i].quantity_on_hand > 0

\* C2: a shipment of q units at an existing (product, location) succeeds iff
\* q <= max(0, on_hand - reserved); otherwise it fails with InsufficientStock,
\* appends no Transaction row and leaves the ledger unchanged.
C2_ShipmentIffAvailable ==
    [][result'.op = "shipment" =>
       \A p \in ProductIds, l \in LocationIds, q \in 1..MaxQty :
        ShipmentAt(p, l, q) =>
            /\ (result'.status = "ok") <=> (q <= Available(inventory, p, l))
            /\ result'.status = "ok" =>
                /\ OnHand(inventory', p, l) = OnHand(inventory, p, l) - q
                /\ Reserved(inventory', p, l) = Reserved(inventory, p, l)
            /\ result'.status # "ok" =>
                /\ result'.status = "InsufficientStock"
                /\ UNCHANGED <<inventory, transactions>>]_vars

\* C3: a successful transfer of q from a to b leaves the product's total
\* on-hand unchanged, takes exactly q from a, adds exactly q to b and appends
\* exactly the two rows -q at a and +q at b.
C3_TransferConserves ==
    [][result' = [op |-> "transfer", status |-> "ok"] =>
       \A p \in AnyProductId, a \in AnyLocationId, b \in AnyLocationId, q \in 1..MaxQty :
        TransferAt(p, a, b, q) =>
            /\ a # b
            /\ OnHand(inventory', p, a) = OnHand(inventory, p, a) - q
            /\ OnHand(inventory', p, b) = OnHand(inventory, p, b) + q
            /\ TotalOnHand(inventory', p) = TotalOnHand(inventory, p)
            /\ transactions' = transactions \o
                   << [product_id |-> p, location_id |-> a,
                       transaction_type |-> "TRANSFER", quantity |-> -q],
                      [product_id |-> p, location_id |-> b,
                       transaction_type |-> "TRANSFER", quantity |-> q] >>]_vars

\* A transfer has succeeded: its two rows close the table and the destination
\* holds stock.
C3_Witness ==
    /\ result = [op |-> "transfer", status |-> "ok"]
    /\ Len(transactions) >= 2
    /\ transactions[Len(transactions)].transaction_type = "TRANSFER"
    /\ transactions[Len(transactions)].quantity > 0
    /\ transactions[Len(transactions) - 1].quantity < 0
    /\ OnHand(inventory, transactions[Len(transactions)].product_id,
              transactions[Len(transactions)].location_id) > 0

\* C4: whenever a single transaction (receipt, shipment, adjustment or raw
\* create_transaction) fails, the persisted state is what it was before the
\* call: no Transaction row appended, no ledger row created or changed.
C4_FailedTransactionLeavesNoTrace ==
    [][(result'.op \in SingleTransactionOps /\ result'.status # "ok")
        => UNCHANGED <<inventory, transactions>>]_vars

\* C5: bulk creation is all-or-nothing: a batch with a failing item leaves the
\* persisted state as it was, a batch without one appends all its rows in
\* list order.
C5_BulkAllOrNothing ==
    [][result'.op = "bulk" =>
       \A b \in Batches :
        CreateBulkTransactionsAt(b) =>
            /\ result'.status # "ok" => UNCHANGED <<inventory, transactions>>
            /\ result'.status = "ok" =>
                transactions' = transactions \o [i \in 1..Len(b) |-> Transaction(b[i])]]_vars

\* C6: a transfer is atomic across its two legs: after a failed transfer
\* neither location's on-hand has changed and no TRANSFER row is persisted.
C6_TransferAtomic ==
    [][(result'.op = "transfer" /\ result'.status # "ok")
        => UNCHANGED <<inventory, transactions>>]_vars

\* C7: using transaction operations only, for every (product, location) the
\* ledger's quantity_on_hand equals the sum of the signed quantities of the
\* persisted Transaction rows of the pair (0 when there are none).
C7_LedgerEqualsHistory ==
    \A p \in AnyProductId, l \in AnyLocationId :
        OnHand(inventory, p, l) = Moved(transactions, p, l)

\* C8: reserve(p, l, q) with q > available, or without a ledger row, fails
\* and leaves reserved and on-hand unchanged; with q <= available it succeeds
\* and adds exactly q to reserved_quantity, on-hand unchanged.
C8_ReserveWithinAvailable ==
    [][result'.op = "reserve" =>
       \A p \in AnyProductId, l \in AnyLocationId, q \in 1..MaxQty :
        ReserveInventoryAt(p, l, q) =>
            IF ~HasRow(inventory, p, l) \/ q > Available(inventory, p, l)
            THEN /\ result'.status = "false"
                 /\ UNCHANGED inventory
            ELSE /\ result'.status = "ok"
                 /\ Reserved(inventory', p, l) = Reserved(inventory, p, l) + q
                 /\ OnHand(inventory', p, l) = OnHand(inventory, p, l)]_vars

\* A reserve was refused on a row that still had something available, and
\* the row is as it was.
C8_WitnessRefused ==
    /\ result = [op |-> "reserve", status |-> "false"]
    /\ \E i \in 1..Len(inventory) :
        /\ inventory[i].quantity_on_hand - inventory[i].reserved_quantity = 1
        /\ inventory[i].reserved_quantity >= 1

\* C9: release(p, l, q) sets reserved_quantity to max(0, reserved - q): at
\* most the reserved amount is taken off exactly, more clamps to 0, the
\* result is never negative and on-hand is unchanged.
C9_ReleaseClamps ==
    [][result'.op = "release" =>
       \A p \in AnyProductId, l \in AnyLocationId, q \in 1..MaxQty :
        (ReleaseReservationAt(p, l, q) /\ HasRow(inventory, p, l)) =>
            /\ result'.status = "ok"
            /\ Reserved(inventory', p, l) = max(0, Reserved(inventory, p, l) - q)
            /\ q <= Reserved(inventory, p, l) =>
                   Reserved(inventory', p, l) = Reserved(inventory, p, l) - q
            /\ q > Reserved(inventory, p, l) => Reserved(inventory', p, l) = 0
            /\ Reserved(inventory', p, l) >= 0
            /\ OnHand(inventory', p, l) = OnHand(inventory, p, l)]_vars

\* A release has run on a row that holds stock and has nothing reserved
\* left.
C9_Witness ==
    /\ result = [op |-> "release", status |-> "ok"]
    /\ \E i \in 1..Len(inventory) :
        inventory[i].quantity_on_hand > 0 /\ inventory[i].reserved_quantity = 0

\* C10: for every (product, location) the reported available quantity is
\* max(0, on_hand - reserved), 0 without a ledger row, never negative, and
\* the product's total available is the sum of these per-location values.
C10_AvailableIsClampedDifference ==
    \A p \in AnyProductId :
        /\ \A l \in AnyLocationId :
            /\ get_available_quantity(inventory, p, l) =
                   (IF HasRow(inventory, p, l)
                    THEN max(0, OnHand(inventory, p, l) - Reserved(inventory, p, l))
                    ELSE 0)
            /\ get_available_quantity(inventory, p, l) >= 0
        /\ get_total_available_quantity(inventory, p) =
               SumOver([l \in AnyLocationId |-> get_available_quantity(inventory, p, l)],
                       AnyLocationId)

\* A row with more reserved than on hand next to a row with stock available.
C10_Witness ==
    /\ \E i \in 1..Len(inventory) :
        inventory[i].reserved_quantity > inventory[i].quantity_on_hand
    /\ \E i \in 1..Len(inventory) :
        inventory[i].quantity_on_hand > inventory[i].reserved_quantity

\* The database left by a receipt of q at (p, l) followed at once by a
\* shipment of q at (p, l), with the outcome of both calls.
ReceiptThenShipment(p, l, q) ==
    LET r == process_stock_receipt(Db, p, l, q)
        s == process_stock_shipment(
                 [inventory |-> r.inventory, transactions |-> r.transactions], p, l, q)
    IN  [received |-> r.status, shipped |-> s.status,
         inventory |-> s.inventory, transactions |-> s.transactions]

RoundTrips(p, l, q) ==
    LET c == ReceiptThenShipment(p, l, q)
    IN  /\ c.received = "ok"
        /\ c.shipped = "ok"
        /\ OnHand(c.inventory, p, l) = OnHand(inventory, p, l)
        /\ c.transactions = transactions \o
               << [product_id |-> p, location_id |-> l,
                   transaction_type |-> "IN", quantity |-> q],
                  [product_id |-> p, location_id |-> l,
                   transaction_type |-> "OUT", quantity |-> -q] >>

\* C11 as stated: from any reachable state, a receipt of q at an existing
\* (product, location) immediately followed by a shipment of q at the same
\* pair succeeds, returns on_hand to its value before the receipt and appends
\* exactly the rows +q (IN) then -q (OUT).
C11_RoundTripFromAnyState ==
    \A p \in ProductIds, l \in LocationIds, q \in 1..MaxQty : RoundTrips(p, l, q)

\* C11 amended: the same from every reachable state in which the pair has no
\* more reserved than on hand (no ledger row counting as 0 and 0); with more
\* reserved than on hand the shipment is refused for insufficient stock.
C11_RoundTripWhenNotOverReserved ==
    \A p \in ProductIds, l \in LocationIds, q \in 1..MaxQty :
        IF Reserved(inventory, p, l) <= OnHand(inventory, p, l)
        THEN RoundTrips(p, l, q)
        ELSE /\ ReceiptThenShipment(p, l, q).received = "ok"
             /\ ReceiptThenShipment(p, l, q).shipped = "InsufficientStock"

\* A receipt and then a shipment of the same quantity have just run at a
\* pair that has units reserved, and on-hand is back where it was.
C11_Witness ==
    /\ result = [op |-> "shipment", status |-> "ok"]
    /\ Len(transactions) = 2
    /\ transactions[1].transaction_type = "IN"
    /\ transactions[2].transaction_type = "OUT"
    /\ transactions[2].quantity = -transactions[1].quantity
    /\ transactions[2].product_id = transactions[1].product_id
    /\ transactions[2].location_id = transactions[1].location_id
    /\ Reserved(inventory, transactions[2].product_id, transactions[2].location_id) > 0
    /\ OnHand(inventory, transactions[2].product_id, transactions[2].location_id) > 0

\* ------------------------------------------------------------ low-stock scan
\* InventoryService.get_low_stock_products: the products joined with the
\* per-product SUM(quantity_on_hand - reserved_quantity) of their ledger
\* rows, kept when that sum is <= reorder_point and the product is active.
get_low_stock_products(inv, prods) ==
    {p \in DOMAIN prods :
        /\ get_inventory(inv, p) # {}
        /\ SumOver([i \in get_inventory(inv, p) |->
                       inv[i].quantity_on_hand - inv[i].reserved_quantity],
                   get_inventory(inv, p)) <= prods[p].reorder_point
        /\ prods[p].is_active}

\* GET /inventory/alerts/low-stock: one alert per product of the scan.
get_low_stock_alerts(inv, prods) ==
    {[product_id |-> p,
      reorder_point |-> prods[p].reorder_point,
      current_available |-> get_total_available_quantity(inv, p),
      shortage |-> max(0, prods[p].reorder_point - get_total_available_quantity(inv, p))]
     : p \in get_low_stock_products(inv, prods)}

\* Sum over all locations of max(0, on_hand - reserved) of product p.
TotalAvailable(inv, p) ==
    SumOver([l \in AnyLocationId |-> Available(inv, p, l)], AnyLocationId)

\* C12: the low-stock scan returns a product iff it is active and the sum
\* over all locations of max(0, on_hand - reserved) is <= its reorder point
\* (0 for a product without ledger rows); the shortage reported for a
\* returned product is max(0, reorder_point - totalAvailable).
C12_LowStockScan ==
    /\ {a.product_id : a \in get_low_stock_alerts(inventory, products)} =
           {p \in ProductIds :
               /\ products[p].is_active
               /\ TotalAvailable(inventory, p) <= products[p].reorder_point}
    /\ \A a \in get_low_stock_alerts(inventory, products) :
           a.shortage = max(0, products[a.product_id].reorder_point
                                - TotalAvailable(inventory, a.product_id))

\* ------------------------------------------------------------ business keys
\* C13: after any sequence of create, update and soft-delete operations no
\* two products share a SKU (deactivated ones included), no two suppliers
\* share a name and no two locations share a name or a non-null code; a
\* create or rename refused with DuplicateKey changes nothing.
C13_BusinessKeysUnique ==
    /\ \A x \in ProductIds, y \in ProductIds :
           x # y => products[x].sku # products[y].sku
    /\ \A x \in SupplierIds, y \in SupplierIds :
           x # y => suppliers[x].name # suppliers[y].name
    /\ \A x \in LocationIds, y \in LocationIds :
           x # y => /\ locations[x].name # locations[y].name
                    /\ locations[x].code # <<>> => locations[x].code # locations[y].code

\* --------------------------------------------------------------- hard deletes
HardDeleteOps ==
    {"delete_product_permanently", "delete_location_permanently",
     "delete_supplier_permanently"}

\* C14: hard-deleting a product or a location that has at least one
\* Transaction row, or a supplier that has any product, fails with
\* BusinessRuleViolation and removes no product, supplier, location, ledger
\* row or Transaction row.
C14_HardDeleteKeepsHistory ==
    [][result'.op \in HardDeleteOps =>
       /\ \A p \in ProductIds :
            (/\ DeleteProductPermanentlyAt(p)
             /\ \E i \in 1..Len(transactions) : transactions[i].product_id = p)
            => /\ result'.status = "BusinessRuleViolation"
               /\ UNCHANGED <<inventory, transactions, products, locations, suppliers>>
       /\ \A l \in LocationIds :
            (/\ DeleteLocationPermanentlyAt(l)
             /\ \E i \in 1..Len(transactions) : transactions[i].location_id = l)
            => /\ result'.status = "BusinessRuleViolation"
               /\ UNCHANGED <<inventory, transactions, products, locations, suppliers>>
       /\ \A x \in SupplierIds :
            (/\ DeleteSupplierPermanentlyAt(x)
             /\ \E p \in ProductIds : products[p].supplier_id = <<x>>)
            => /\ result'.status = "BusinessRuleViolation"
               /\ UNCHANGED <<inventory, transactions, products, locations, suppliers>>
      ]_vars

\* The hard delete of a product was refused although the ledger holds no
\* stock: what stood in its way are the product's Transaction rows.
C14_Witness ==
    /\ result = [op |-> "delete_product_permanently", status |-> "BusinessRuleViolation"]
    /\ Len(transactions) = 2
    /\ ProductIds # {}
    /\ \A i \in 1..Len(inventory) :
           inventory[i].quantity_on_hand = 0 /\ inventory[i].reserved_quantity = 0

\* ---------------------------------------------------------- invalid arguments
\* The request was refused and the ledger and the transactions are as before.
Rejected == result'.status # "ok" /\ UNCHANGED <<inventory, transactions>>

\* C15: a transaction request with an invalid argument (quantity zero, a
\* product id or location id that does not resolve, a transfer whose source
\* equals its destination) is rejected without any state change: no
\* Transaction row appended, no ledger row created or modified.
C15_InvalidArgumentRejected ==
    [][result'.op \in SingleTransactionOps \cup {"transfer"} =>
       /\ \A p \in AnyProductId, l \in AnyLocationId, q \in -MaxQty..MaxQty :
            (q = 0 \/ p \notin ProductIds \/ l \notin LocationIds) =>
                /\ \A t \in TransactionType :
                       CreateTransactionAt(TransactionCreate(p, l, t, q)) => Rejected
                /\ AdjustmentAt(p, l, q) => Rejected
                /\ (q >= 1 /\ ReceiptAt(p, l, q)) => Rejected
                /\ (q >= 1 /\ ShipmentAt(p, l, q)) => Rejected
       /\ \A p \in AnyProductId, a \in AnyLocationId, b \in AnyLocationId, q \in 1..MaxQty :
            (a = b \/ p \notin ProductIds \/ a \notin LocationIds \/ b \notin LocationIds) =>
                (TransferAt(p, a, b, q) => Rejected)
      ]_vars

\* C16: reserved_quantity of every ledger row is >= 0 in every state
\* reachable through the public operations (direct update of the quantities,
\* reserve, release and every transaction type).
C16_ReservedNeverNegative ==
    \A i \in 1..Len(inventory) : inventory[i].reserved_quantity >= 0

\* ------------------------------------------------------------------ sign rule
\* The last row of the table txs.
LastRow(txs) == txs[Len(txs)]

\* C17: every persisted Transaction row obeys the sign rule of its type (IN
\* > 0, OUT < 0, ADJUSTMENT # 0, no row of any type with quantity 0), and
\* the receipt and shipment operations post +|q| and -|q| whatever sign the
\* caller supplies.
C17_SignRule ==
    /\ \A i \in 1..Len(transactions) :
           /\ transactions[i].quantity # 0
           /\ transactions[i].transaction_type = "IN" => transactions[i].quantity > 0
           /\ transactions[i].transaction_type = "OUT" => transactions[i].quantity < 0
    /\ \A p \in ProductIds, l \in LocationIds, q \in (-MaxQty..MaxQty) \ {0} :
           /\ LET r == process_stock_receipt(Db, p, l, q)
              IN  r.status = "ok" =>
                      /\ Len(r.transactions) = Len(transactions) + 1
                      /\ LastRow(r.transactions) =
                             [product_id |-> p, location_id |-> l,
                              transaction_type |-> "IN", quantity |-> abs(q)]
           /\ LET r == process_stock_shipment(Db, p, l, q)
              IN  r.status = "ok" =>
                      /\ Len(r.transactions) = Len(transactions) + 1
                      /\ LastRow(r.transactions) =
                             [product_id |-> p, location_id |-> l,
                              transaction_type |-> "OUT", quantity |-> -abs(q)]

\* A negative adjustment has just been posted after a receipt: the table
\* holds rows of both signs.
C17_Witness ==
    /\ result = [op |-> "adjustment", status |-> "ok"]
    /\ \E i \in 1..Len(transactions) : transactions[i].transaction_type = "IN"
    /\ \E i \in 1..Len(transactions) :
           transactions[i].transaction_type = "ADJUSTMENT" /\ transactions[i].quantity < 0

\* ------------------------------------------------------------- transfer pairs
\* Positions of the TRANSFER rows of product p with a negative (outgoing)
\* and with a positive (incoming) quantity.
TransferOut(txs, p) ==
    {i \in 1..Len(txs) : /\ txs[i].transaction_type = "TRANSFER"
                          /\ txs[i].product_id = p /\ txs[i].quantity < 0}
TransferIn(txs, p) ==
    {i \in 1..Len(txs) : /\ txs[i].transaction_type = "TRANSFER"
                          /\ txs[i].product_id = p /\ txs[i].quantity > 0}

\* C18: TRANSFER rows only exist as matched pairs: the TRANSFER rows of a
\* product can be paired into one negative row at a source and one positive
\* row of equal magnitude at a different destination, so their quantities
\* sum to zero; no operation persists a lone TRANSFER row.
C18_TransfersPaired ==
    \A p \in AnyProductId :
        /\ SumOver([i \in 1..Len(transactions) |->
                       IF /\ transactions[i].transaction_type = "TRANSFER"
                          /\ transactions[i].product_id = p
                       THEN transactions[i].quantity ELSE 0],
                   1..Len(transactions)) = 0
        /\ \E f \in [TransferOut(transactions, p) -> TransferIn(transactions, p)] :
               /\ \A i, j \in TransferOut(transactions, p) : f[i] = f[j] => i = j
               /\ \A k \in TransferIn(transactions, p) :
                      \E i \in TransferOut(transactions, p) : f[i] = k
               /\ \A i \in TransferOut(transactions, p) :
                      /\ transactions[f[i]].quantity = -transactions[i].quantity
                      /\ transactions[f[i]].location_id # transactions[i].location_id

\* ---------------------------------------------------------------- append-only
\* C19: the transaction ledger is append-only: a
\* persisted Transaction row stays present, at its place and with its
\* fields unchanged, through every later operation, soft and hard deletes of
\* products, suppliers and locations included.
C19_LedgerAppendOnly ==
    [][/\ Len(transactions') >= Len(transactions)
       /\ \A i \in 1..Len(transactions) : transactions'[i] = transactions[i]]_vars

\* A location was deactivated after a receipt and a shipment had been
\* recorded at it, and both rows are still there.
C19_Witness ==
    /\ result = [op |-> "delete_location", status |-> "ok"]
    /\ Len(transactions) = 2
    /\ \E l \in LocationIds :
           /\ ~locations[l].is_active
           /\ \A i \in 1..Len(transactions) : transactions[i].location_id = l

\* ------------------------------------------------------------ one row per pair
\* C20: at most one ledger row exists per (product, location) pair in every
\* reachable state, also when concurrent requests each fetch-or-create the
\* row of the same pair.
C20_OneRowPerPair ==
    \A p \in AnyProductId, l \in AnyLocationId :
        Cardinality(RowsOf(inventory, p, l)) <= 1

\* ------------------------------------------------------------------ lost update
\* C21: the write of a transaction is an unguarded read-modify-write: a
\* request that created the ledger row of its pair ends successfully by
\* storing the quantity its refresh read plus its delta, whatever has been
\* committed to the row since; a request that found the row committed
\* stores the committed quantity plus its delta; either way its Transaction
\* row is persisted.  With two concurrent writers on one (product, location)
\* there is therefore an interleaving in which both succeed, both rows are
\* persisted and the final on_hand is not initial + d1 + d2.
C21_UnguardedReadModifyWrite ==
    [][result' = [op |-> "create_transaction", status |-> "ok"] =>
       \A s \in 1..NumRequests :
        (inflight[s].pc # "idle" /\ inflight'[s].pc = "idle") =>
            LET r == inflight[s]
                c == SessionRow(r, inventory)
            IN  /\ r.pc = "refreshed" =>
                       inventory'[r.row].quantity_on_hand =
                           r.seen.quantity_on_hand + r.data.quantity
                /\ r.pc = "validated" =>
                       /\ c.row # 0
                       /\ inventory'[c.row].quantity_on_hand =
                              inventory[c.row].quantity_on_hand + r.data.quantity
                       /\ transactions' = Append(transactions, Transaction(r.data))
                /\ \E i \in 1..Len(transactions') :
                       transactions'[i] = Transaction(r.data)]_vars

\* Two or more receipts and shipments at one pair have all succeeded (no
\* request is running, and IN and OUT rows are persisted by successful
\* requests only), yet the pair's on_hand is not the sum of their deltas
\* over the empty ledger they started from.
C21_Witness ==
    /\ inflight = Idle
    /\ result = [op |-> "create_transaction", status |-> "ok"]
    /\ \E p \in ProductIds, l \in LocationIds :
        /\ Cardinality({i \in 1..Len(transactions) :
                           /\ transactions[i].product_id = p
                           /\ transactions[i].location_id = l}) >= 2
        /\ \A i \in 1..Len(transactions) :
               (transactions[i].product_id = p /\ transactions[i].location_id = l)
                   => transactions[i].transaction_type \in {"IN", "OUT"}
        /\ OnHand(inventory, p, l) # Moved(transactions, p, l)

\* ---------------------------------------------------------------- HTTP status
\* The words handle_service_error looks for that occur in the (lower-cased)
\* message of the error a service raises with the given outcome:
\*   NotFound               "... with ID 7 not found"
\*   DuplicateKey           "... already exists"
\*   InvalidSupplier        "Invalid or inactive supplier ID: 7"
\*   ZeroQuantity           "Transaction quantity cannot be zero"
\*   SameLocation           "Source and destination locations cannot be the same"
\*   InsufficientStock      "Insufficient stock. Available: 0, Required: 1"
\*   BusinessRuleViolation  "Cannot deactivate ...", "Cannot permanently delete ..."
\*   WrongSign              "IN transactions must have positive quantity"
\*   NegativeInventory      "Transaction would result in negative inventory: -1. ...",
\*                          "Negative inventory not allowed"
\*   IntegrityError         "(sqlite3.IntegrityError) FOREIGN KEY constraint failed ..."
ErrorWords(status) ==
    CASE status = "NotFound" -> {"not found"}
      [] status = "DuplicateKey" -> {"already exists"}
      [] status = "InvalidSupplier" -> {"invalid"}
      [] status = "ZeroQuantity" -> {"cannot"}
      [] status = "SameLocation" -> {"cannot"}
      [] status = "InsufficientStock" -> {"insufficient"}
      [] status = "BusinessRuleViolation" -> {"cannot"}
      [] OTHER -> {}

\* dependencies.py handle_service_error on a message containing the words in
\* `words`: the status code of the HTTPException it returns.
handle_service_error(words) ==
    IF "not found" \in words THEN 404
    ELSE IF "already exists" \in words THEN 409
    ELSE IF "insufficient" \in words THEN 400
    ELSE IF "invalid" \in words \/ "cannot" \in words THEN 400
    ELSE 500

\* The status code of the response to the request that ended as r: 200 on
\* success; the reserve and release handlers answer a False of the service
\* with 400 and 404 themselves, every other failure goes through
\* handle_service_error (the hard-delete handlers answer a ValueError with
\* 400 themselves, as handle_service_error does for its message).
ResponseStatus(r) ==
    IF r.status = "ok" THEN 200
    ELSE IF r.op = "reserve" THEN 400
    ELSE IF r.op = "release" THEN 404
    ELSE handle_service_error(ErrorWords(r.status))

\* C22: at the API boundary every validation or business-rule failure
\* (insufficient stock, a transaction or a direct update that would make
\* inventory negative, same-location transfer, zero or wrong-sign quantity)
\* is answered with 400, every not-found failure with 404, every
\* duplicate-key failure with 409, and none of them with 500.
C22_FailureStatusCodes ==
    /\ result.status \in {"InsufficientStock", "NegativeInventory", "SameLocation",
                          "ZeroQuantity", "WrongSign"}
           => ResponseStatus(result) = 400
    /\ result.status = "NotFound" => ResponseStatus(result) = 404
    /\ result.status = "DuplicateKey" => ResponseStatus(result) = 409

\* ---------------------------------------------------------------- soft deletes
SoftDeleteOps == {"delete_product", "delete_supplier", "delete_location"}

\* Some ledger row of location l has a quantity that is not zero.
HoldsQuantity(l) ==
    \E i \in 1..Len(inventory) :
        /\ inventory[i].location_id = l
        /\ inventory[i].quantity_on_hand # 0 \/ inventory[i].reserved_quantity # 0

\* Supplier x has a product that is active.
HasActiveProduct(x) ==
    \E p \in ProductIds : products[p].supplier_id = <<x>> /\ products[p].is_active

\* C23: the soft delete of a location fails with BusinessRuleViolation and
\* leaves is_active as it is whenever the location has a ledger row with a
\* non-zero quantity, that of a supplier whenever the supplier has an active
\* product; otherwise it sets is_active to false and removes nothing.  The
\* soft delete of an existing product always succeeds.
C23_SoftDeleteRules ==
    [][result'.op \in SoftDeleteOps =>
       /\ \A l \in LocationIds :
            DeleteLocationAt(l) =>
                IF HoldsQuantity(l)
                THEN /\ result'.status = "BusinessRuleViolation"
                     /\ UNCHANGED <<inventory, transactions, catalog>>
                ELSE /\ result'.status = "ok"
                     /\ locations' = [locations EXCEPT ![l].is_active = FALSE]
                     /\ UNCHANGED <<inventory, transactions, products, suppliers>>
       /\ \A x \in SupplierIds :
            DeleteSupplierAt(x) =>
                IF HasActiveProduct(x)
                THEN /\ result'.status = "BusinessRuleViolation"
                     /\ UNCHANGED <<inventory, transactions, catalog>>
                ELSE /\ result'.status = "ok"
                     /\ suppliers' = [suppliers EXCEPT ![x].is_active = FALSE]
                     /\ UNCHANGED <<inventory, transactions, products, locations>>
       /\ \A p \in ProductIds :
            DeleteProductAt(p) =>
                /\ result'.status = "ok"
                /\ products' = [products EXCEPT ![p].is_active = FALSE]
                /\ UNCHANGED <<inventory, transactions, locations, suppliers>>
      ]_vars

\* ----------------------------------------------------------------------- frame
\* The ledger `after` differs from the current one at the pairs in `pairs`
\* only, and nowhere in a reserved quantity: the rows there were keep their
\* place, their pair and their reserved quantity, those of other pairs are
\* as they were, and a row that was added is a row of one of the pairs with
\* nothing reserved.
OnlyOnHandAt(after, pairs) ==
    /\ Len(after) >= Len(inventory)
    /\ \A i \in 1..Len(inventory) :
        /\ after[i].product_id = inventory[i].product_id
        /\ after[i].location_id = inventory[i].location_id
        /\ after[i].reserved_quantity = inventory[i].reserved_quantity
        /\ <<inventory[i].product_id, inventory[i].location_id>> \notin pairs
               => after[i] = inventory[i]
    /\ \A i \in (Len(inventory) + 1)..Len(after) :
        /\ after[i].reserved_quantity = 0
        /\ <<after[i].product_id, after[i].location_id>> \in pairs

\* C24: receipt, shipment, transfer and adjustment never change the
\* reserved_quantity of any ledger row and change quantity_on_hand only at
\* the (product, location) pairs they name; every other ledger row is left
\* unchanged.  Stated of the ledger each operation leaves behind when it is
\* called in a reachable state, whether it succeeds or fails.
C24_TransactionFrame ==
    /\ \A p \in AnyProductId, l \in AnyLocationId, q \in 1..MaxQty :
        /\ OnlyOnHandAt(process_stock_receipt(Db, p, l, q).inventory, {<<p, l>>})
        /\ OnlyOnHandAt(process_stock_shipment(Db, p, l, q).inventory, {<<p, l>>})
    /\ \A p \in AnyProductId, l \in AnyLocationId, q \in -MaxQty..MaxQty :
        OnlyOnHandAt(process_stock_adjustment(Db, p, l, q).inventory, {<<p, l>>})
    /\ \A p \in AnyProductId, a \in AnyLocationId, b \in AnyLocationId, q \in 1..MaxQty :
        OnlyOnHandAt(process_stock_transfer(Db, p, a, b, q).inventory,
                     {<<p, a>>, <<p, b>>})

\* A shipment has just taken stock from a pair that has units reserved,
\* while another ledger row holds stock and a reservation of its own.
C24_Witness ==
    /\ result = [op |-> "shipment", status |-> "ok"]
    /\ Len(transactions) >= 1
    /\ LET t == LastRow(transactions)
       IN  /\ Reserved(inventory, t.product_id, t.location_id) > 0
           /\ \E i \in 1..Len(inventory) :
               /\ inventory[i].location_id # t.location_id
               /\ inventory[i].quantity_on_hand > 0
               /\ inventory[i].reserved_quantity > 0

\* ------------------------------------------------------ hard delete and stock
\* The positions of the ledger rows of product p, and of location l, that
\* have a quantity that is not zero.
NonZeroRows(rows) ==
    {i \in rows : inventory[i].quantity_on_hand # 0 \/ inventory[i].reserved_quantity # 0}
RowsAtLocation(l) == {i \in 1..Len(inventory) : inventory[i].location_id = l}

\* C25: the hard delete of a product or a location fails with
\* BusinessRuleViolation and deletes nothing whenever one of its ledger rows
\* has a non-zero on_hand or reserved quantity; when it succeeds it removes
\* the record together with all ledger rows tied to it, all of which have
\* zero quantities.
C25_HardDeleteNeedsZeroStock ==
    [][/\ result'.op = "delete_product_permanently" =>
            \A p \in ProductIds :
                DeleteProductPermanentlyAt(p) =>
                    /\ NonZeroRows(get_inventory(inventory, p)) # {} =>
                        /\ result'.status = "BusinessRuleViolation"
                        /\ UNCHANGED <<inventory, transactions, catalog>>
                    /\ result'.status = "ok" =>
                        /\ NonZeroRows(get_inventory(inventory, p)) = {}
                        /\ products' = Without(products, p)
                        /\ inventory' = KeepRows(inventory,
                               (1..Len(inventory)) \ get_inventory(inventory, p))
       /\ result'.op = "delete_location_permanently" =>
            \A l \in LocationIds :
                DeleteLocationPermanentlyAt(l) =>
                    /\ NonZeroRows(RowsAtLocation(l)) # {} =>
                        /\ result'.status = "BusinessRuleViolation"
                        /\ UNCHANGED <<inventory, transactions, catalog>>
                    /\ result'.status = "ok" =>
                        /\ NonZeroRows(RowsAtLocation(l)) = {}
                        /\ locations' = Without(locations, l)
                        /\ inventory' = KeepRows(inventory,
                               (1..Len(inventory)) \ RowsAtLocation(l))
      ]_vars

\* ------------------------------------------------------------ performance score
\* The number of IN rows of the products of supplier x.
ReceiptCount(x) ==
    Cardinality({i \in 1..Len(transactions) :
                    /\ transactions[i].transaction_type = "IN"
                    /\ transactions[i].product_id \in ProductIds
                    /\ products[transactions[i].product_id].supplier_id = <<x>>})

\* C26: for every supplier with at least one product the performance score
\* is (min(5, receiptCount/10) + max(0, 5 - leadTimeDays/10)) / 2 rounded to
\* 2 decimals, receiptCount = 0 included; the score is 0 exactly when the
\* supplier has no product, and it always lies in [0, 5].  (Scores in
\* hundredths.)
C26_PerformanceScore ==
    (result.op = "supplier_performance" /\ result.status = "ok") =>
        LET x == result.supplier_id
            score == result.metrics.performance_score
            has_products == \E p \in ProductIds : products[p].supplier_id = <<x>>
            expected == (min(500, 10 * ReceiptCount(x))
                         + max(0, 500 - 10 * suppliers[x].lead_time_days)) \div 2
        IN  /\ has_products => score = expected
            /\ (score = 0) <=> ~has_products
            /\ 0 <= score /\ score <= 500

\* ------------------------------------------------------------------ adjustment
\* C27: an adjustment of signed quantity q at an existing (product, location)
\* succeeds if and only if q # 0 and on_hand + q >= 0 (on_hand 0 without a
\* ledger row); it is held against on-hand only, not against the available
\* quantity, and on success on_hand becomes on_hand + q with the reserved
\* quantity as it was, so that a negative adjustment can leave
\* quantity_on_hand below reserved_quantity.
C27_AdjustmentIffOnHandCovers ==
    \A p \in ProductIds, l \in LocationIds, q \in -MaxQty..MaxQty :
        LET c == process_stock_adjustment(Db, p, l, q)
        IN  /\ (c.status = "ok") <=> (q # 0 /\ OnHand(inventory, p, l) + q >= 0)
            /\ c.status = "ok" =>
                /\ OnHand(c.inventory, p, l) = OnHand(inventory, p, l) + q
                /\ Reserved(c.inventory, p, l) = Reserved(inventory, p, l)

\* A negative adjustment has just succeeded on a row whose on_hand covered
\* its reservation before and is below it now.
C27_Witness ==
    /\ result = [op |-> "adjustment", status |-> "ok"]
    /\ Len(transactions) >= 1
    /\ LET t == LastRow(transactions)
           on_hand == OnHand(inventory, t.product_id, t.location_id)
           reserved == Reserved(inventory, t.product_id, t.location_id)
       IN  /\ t.transaction_type = "ADJUSTMENT"
           /\ t.quantity < 0
           /\ on_hand - t.quantity >= reserved
           /\ on_hand < reserved

\* ------------------------------------------------------- reserved within stock
\* C28: after any sequence of receipts, shipments, transfers, reserves and
\* releases (no adjustment, no direct update of the quantities)
\* reserved_quantity <= quantity_on_hand holds on every ledger row, so what
\* has been reserved never exceeds what is on hand, and a reserve of one
\* unit or more fails once the available quantity is 0.
C28_ReservedWithinOnHand ==
    /\ \A i \in 1..Len(inventory) :
           inventory[i].reserved_quantity <= inventory[i].quantity_on_hand
    /\ \A p \in AnyProductId, l \in AnyLocationId, q \in 1..MaxQty :
           Available(inventory, p, l) = 0 =>
               /\ reserve_inventory(inventory, p, l, q).status = "false"
               /\ reserve_inventory(inventory, p, l, q).inventory = inventory

\* A reserve has just been refused on a row whose stock, which came in by
\* a transfer, is all reserved.
C28_Witness ==
    /\ result = [op |-> "reserve", status |-> "false"]
    /\ \E i \in 1..Len(inventory) :
           /\ inventory[i].quantity_on_hand > 0
           /\ inventory[i].reserved_quantity = inventory[i].quantity_on_hand
           /\ \E k \in 1..Len(transactions) :
               /\ transactions[k].transaction_type = "TRANSFER"
               /\ transactions[k].quantity > 0
               /\ transactions[k].location_id = inventory[i].location_id

\* ------------------------------------------------------- referential integrity
\* C29: referential integrity is preserved by every sequence of create,
\* update, soft-delete, hard-delete and transaction operations: every ledger
\* row and every Transaction row references a product and a location that
\* exist, and the supplier reference of every product, when set, names a
\* supplier that exists.
C29_ReferentialIntegrity ==
    /\ \A i \in 1..Len(inventory) :
           /\ inventory[i].product_id \in ProductIds
           /\ inventory[i].location_id \in LocationIds
    /\ \A i \in 1..Len(transactions) :
           /\ transactions[i].product_id \in ProductIds
           /\ transactions[i].location_id \in LocationIds
    /\ \A p \in ProductIds :
           products[p].supplier_id # <<>> => products[p].supplier_id[1] \in SupplierIds

\* A supplier has just been removed for good while a product exists, which
\* therefore names no supplier.
C29_Witness ==
    /\ result = [op |-> "delete_supplier_permanently", status |-> "ok"]
    /\ ProductIds # {}
    /\ SupplierIds = {}

\* ----------------------------------------------------------- inactive locations
\* C30: an inactive location never holds stock: in every reachable state a
\* location with is_active = false has no ledger row with quantity_on_hand
\* > 0, that is, no operation (soft delete or update) deactivates a location
\* that holds stock and no transaction adds stock to a deactivated location.
C30_InactiveLocationHoldsNoStock ==
    \A l \in LocationIds :
        ~locations[l].is_active =>
            \A i \in 1..Len(inventory) :
                inventory[i].location_id = l => inventory[i].quantity_on_hand <= 0

====
